---- MODULE Spec2Model ----
(***************************************************************************)
(* A model of main.py of YNAB2GoogleSheet: the credential loader           *)
(* (AuthData), the transaction fetcher (get_ynab_transactions), the        *)
(* formatter (format_ynab_transactions, convert_milliunits_to_dollar_      *)
(* amount, str) and the sheet writer (post_gsheets_transactions).          *)
(*                                                                         *)
(* Python values are tagged records; Python floats are IEEE-754 binary64   *)
(* values sign * mant * 2^exp with a 53-bit mantissa, held as a sequence   *)
(* of decimal digits (least significant first) because a mantissa does     *)
(* not fit a machine integer of the model checker.                         *)
(***************************************************************************)
EXTENDS Integers, Sequences, FiniteSets, TLC

(***************************************************************************)
(* Natural numbers of any size: sequences of limbs in base 10^4, least     *)
(* significant limb first, without leading zero limbs; zero is << >>.      *)
(* Base 10^4 keeps every product limb * multiplier + carry below 2^31.     *)
(***************************************************************************)
Base == 10000

RECURSIVE BigOfNat(_)
BigOfNat(n) == IF n = 0 THEN << >> ELSE <<n % Base>> \o BigOfNat(n \div Base)

RECURSIVE BigMulC(_, _, _)
\* a * m + c, for a multiplier m and a carry c below 2^17
BigMulC(a, m, c) ==
    IF a = << >> THEN BigOfNat(c)
    ELSE LET t == Head(a) * m + c
         IN  <<t % Base>> \o BigMulC(Tail(a), m, t \div Base)

BigMul(a, m) == BigMulC(a, m, 0)

RECURSIVE BigMulPow(_, _, _)
\* a * m^k
BigMulPow(a, m, k) ==
    IF k = 0 \/ a = << >> THEN a
    ELSE LET b == BigMul(a, m) IN IF b = << >> THEN b ELSE BigMulPow(b, m, k - 1)

\* a * 5^k, seven factors at a time
BigMulPow5(a, k) == BigMulPow(BigMulPow(a, 78125, k \div 7), 5, k % 7)

RECURSIVE BigStrip(_)
\* drop the zero limbs at the most significant end
BigStrip(a) ==
    IF a = << >> THEN a
    ELSE IF a[Len(a)] = 0 THEN BigStrip(SubSeq(a, 1, Len(a) - 1)) ELSE a

RECURSIVE BigAddC(_, _, _)
BigAddC(a, b, c) ==
    IF a = << >> /\ b = << >> THEN BigOfNat(c)
    ELSE LET x == IF a = << >> THEN 0 ELSE Head(a)
             y == IF b = << >> THEN 0 ELSE Head(b)
             t == x + y + c
         IN  <<t % Base>> \o BigAddC(IF a = << >> THEN a ELSE Tail(a),
                                     IF b = << >> THEN b ELSE Tail(b), t \div Base)

BigAdd(a, b) == BigAddC(a, b, 0)

RECURSIVE BigSubB(_, _, _)
\* a - b - borrow, for a >= b + borrow; the result may carry leading zeros
BigSubB(a, b, w) ==
    IF a = << >> THEN << >>
    ELSE LET y == IF b = << >> THEN 0 ELSE Head(b)
             t == Head(a) - y - w
         IN  <<(t + Base) % Base>> \o BigSubB(Tail(a), IF b = << >> THEN b ELSE Tail(b),
                                             IF t < 0 THEN 1 ELSE 0)

BigSub(a, b) == BigStrip(BigSubB(a, b, 0))

RECURSIVE BigCmpAt(_, _, _)
\* compares two numbers of the same length from limb i downwards: -1, 0, 1
BigCmpAt(a, b, i) ==
    IF i = 0 THEN 0
    ELSE IF a[i] < b[i] THEN -1
    ELSE IF a[i] > b[i] THEN 1
    ELSE BigCmpAt(a, b, i - 1)

BigCmp(a, b) ==
    IF Len(a) < Len(b) THEN -1
    ELSE IF Len(a) > Len(b) THEN 1
    ELSE BigCmpAt(a, b, Len(a))

BigLess(a, b) == BigCmp(a, b) < 0

Pow10(j) == CASE j = 0 -> 1 [] j = 1 -> 10 [] j = 2 -> 100 [] j = 3 -> 1000 [] OTHER -> Base

\* 10^k * a
BigShift(a, k) ==
    IF a = << >> THEN a ELSE [j \in 1..(k \div 4) |-> 0] \o BigMul(a, Pow10(k % 4))

\* the number of decimal digits of a, and its j-th decimal digit from the right
BigDigits(a) ==
    IF a = << >> THEN 0
    ELSE LET top == a[Len(a)]
         IN  4 * (Len(a) - 1)
             + (IF top >= 1000 THEN 4 ELSE IF top >= 100 THEN 3 ELSE IF top >= 10 THEN 2 ELSE 1)

BigDigit(a, j) == (a[(j - 1) \div 4 + 1] \div Pow10((j - 1) % 4)) % 10

\* a with its z lowest decimal digits set to zero
BigTruncate(a, z) ==
    [j \in 1..Len(a) |->
        LET cut == z - 4 * (j - 1)
        IN  IF cut <= 0 THEN a[j] ELSE IF cut >= 4 THEN 0 ELSE a[j] - (a[j] % Pow10(cut))]

(***************************************************************************)
(* Python values.  Every value is a record of the same shape; t is the     *)
(* Python type.  A float is (-1)^neg * mant * 2^exp with                   *)
(* 2^52 <= mant < 2^53, or zero (mant = << >>).                            *)
(***************************************************************************)
PyInt(n) == [t |-> "int", i |-> n, s |-> "", neg |-> FALSE, mant |-> << >>, exp |-> 0]
PyStr(x) == [t |-> "str", i |-> 0, s |-> x, neg |-> FALSE, mant |-> << >>, exp |-> 0]
PyBool(b) == [t |-> "bool", i |-> IF b THEN 1 ELSE 0, s |-> "", neg |-> FALSE,
              mant |-> << >>, exp |-> 0]
PyNone == [t |-> "NoneType", i |-> 0, s |-> "", neg |-> FALSE, mant |-> << >>, exp |-> 0]
PyFloat(sg, m, e) == [t |-> "float", i |-> 0, s |-> "", neg |-> sg, mant |-> m, exp |-> e]

Two52 == BigMulPow(<<1>>, 2, 52)
Two53 == BigMul(Two52, 2)
\* 1000 * 2^52: a dividend at or above it has a quotient by 1000 of 53 bits
ScaleFloor == BigShift(Two52, 3)

RECURSIVE ScaleUp(_, _)
\* doubles A until A \div 1000 has 53 bits; <<A * 2^s, s>>
ScaleUp(A, s) == IF BigLess(A, ScaleFloor) THEN ScaleUp(BigMul(A, 2), s + 1) ELSE <<A, s>>

\* N * 2^E / 1000 rounded to the nearest binary64 value, ties to even
\* (0 < N < 2^53: the quotient is normal and far from overflow and underflow)
RoundQuot(sg, N, E) ==
    LET sc  == ScaleUp(N, 0)
        A   == sc[1]
        A10 == BigMul(A, 10)
        q   == Tail(A10)
        r   == Head(A10) \div 10
        up  == r > 500 \/ (r = 500 /\ q[1] % 2 = 1)
        q1  == IF up THEN BigAddC(q, << >>, 1) ELSE q
    IN  IF q1 = Two53 THEN PyFloat(sg, Two52, E - sc[2] + 1)
        ELSE PyFloat(sg, q1, E - sc[2])

Abs(n) == IF n < 0 THEN -n ELSE n

\* Python's val / 1000 for an int or a float val (a true division either way)
TrueDivide1000(val) ==
    IF val.t = "int"
    THEN IF val.i = 0 THEN PyFloat(FALSE, << >>, 0)
         ELSE RoundQuot(val.i < 0, BigOfNat(Abs(val.i)), 0)
    ELSE IF val.mant = << >> THEN PyFloat(val.neg, << >>, 0)
         ELSE RoundQuot(val.neg, val.mant, val.exp)

\* main.py:148-153.  float() of a float is that float.
convert_milliunits_to_dollar_amount(val) == TrueDivide1000(val)

(***************************************************************************)
(* repr of a float: the shortest decimal that reads back as the same       *)
(* value, the closest such one to it.  With E = -k < 0 the value is        *)
(* mant * 5^k / 10^k exactly, so the search is on decimal digits, at the   *)
(* scale 10^-(k+2) where the two half-gaps to the neighbours are integers. *)
(***************************************************************************)
\* c lies in the interval of the decimals that read back as the value; its ends
\* belong to it when the mantissa is even (ties go to even)
InRange(Lo, Hi, even, c) ==
    IF even THEN BigCmp(Lo, c) <= 0 /\ BigCmp(c, Hi) <= 0
    ELSE BigCmp(Lo, c) < 0 /\ BigCmp(c, Hi) < 0

\* of the decimals d < X < u, the closer one to X; last: the last kept digit of d
Closer(X, d, u, last) ==
    LET c == BigCmp(BigSub(X, d), BigSub(u, X))
    IN  IF c < 0 \/ (c = 0 /\ last % 2 = 0) THEN d ELSE u

\* the decimal of n digits to return, or << >> when none reads back as the value
Pick(X, D, n, d, u, din, uin) ==
    IF din /\ uin THEN Closer(X, d, u, BigDigit(d, D - n + 1))
    ELSE IF din THEN d ELSE IF uin THEN u ELSE << >>

Candidate(X, Lo, Hi, even, D, n, d, u) ==
    Pick(X, D, n, d, u, InRange(Lo, Hi, even, d), InRange(Lo, Hi, even, u))

RECURSIVE Search(_, _, _, _, _, _)
SearchStep(X, Lo, Hi, even, D, n, p) ==
    IF p # << >> THEN p ELSE Search(X, Lo, Hi, even, D, n + 1)

\* the shortest decimal in the interval, trying n, n + 1, ... digits; X has D digits
Search(X, Lo, Hi, even, D, n) ==
    IF n >= D THEN X
    ELSE SearchStep(X, Lo, Hi, even, D, n,
             Candidate(X, Lo, Hi, even, D, n, BigTruncate(X, D - n),
                       BigAdd(BigTruncate(X, D - n), BigShift(<<1>>, D - n))))

ShortestIn(X, Hup, Hdn, even) ==
    Search(X, BigSub(X, Hdn), BigAdd(X, Hup), even, BigDigits(X), 1)

\* the gap to the value above is 2^-k, the gap to the value below half of that when
\* the mantissa is 2^52; X, Hup and Hdn are in units of 10^-(k+2)
ShortestDecimal(M, k) ==
    ShortestIn(BigShift(BigMulPow5(M, k), 2),
               BigShift(BigMulPow5(<<1>>, k + 1), 1),
               IF M = Two52 THEN BigMulPow5(<<1>>, k + 2)
               ELSE BigShift(BigMulPow5(<<1>>, k + 1), 1),
               M[1] % 2 = 0)

RECURSIVE LowZeros(_, _)
\* how many zeros the decimal digits of a nonzero number end in, from digit j on
LowZeros(a, j) == IF BigDigit(a, j) # 0 THEN 0 ELSE 1 + LowZeros(a, j + 1)

RECURSIVE DigitString(_, _, _)
\* the decimal digits j down to i of a, most significant first
DigitString(a, j, i) ==
    IF j < i THEN "" ELSE ToString(BigDigit(a, j)) \o DigitString(a, j - 1, i)

RECURSIVE Zeros(_)
Zeros(n) == IF n <= 0 THEN "" ELSE "0" \o Zeros(n - 1)

TwoDigits(n) == IF n < 10 THEN "0" \o ToString(n) ELSE ToString(n)

\* format code 'r': the digits D down to z + 1 of c are 0.d1d2...dn * 10^decpt;
\* fixed notation for -4 < decpt <= 16, else an exponent of two digits at least
FormatDigits(c, D, z, decpt) ==
    IF decpt <= -4 \/ decpt > 16
    THEN DigitString(c, D, D) \o (IF D - z > 1 THEN "." ELSE "") \o DigitString(c, D - 1, z + 1)
         \o "e" \o (IF decpt - 1 < 0 THEN "-" ELSE "+") \o TwoDigits(Abs(decpt - 1))
    ELSE IF decpt <= 0 THEN "0." \o Zeros(-decpt) \o DigitString(c, D, z + 1)
    ELSE IF decpt >= D - z THEN DigitString(c, D, z + 1) \o Zeros(decpt - (D - z)) \o ".0"
    ELSE DigitString(c, D, D - decpt + 1) \o "." \o DigitString(c, D - decpt, z + 1)

\* c is the decimal in units of 10^-scale
FormatDecimal(c, scale) == FormatDigits(c, BigDigits(c), LowZeros(c, 1), BigDigits(c) - scale)

\* float.__repr__
FloatRepr(x) ==
    IF x.mant = << >> THEN (IF x.neg THEN "-0.0" ELSE "0.0")
    ELSE (IF x.neg THEN "-" ELSE "")
         \o FormatDecimal(ShortestDecimal(x.mant, -x.exp), 2 - x.exp)

\* Python's str() of a JSON value
str(v) ==
    CASE v.t = "str" -> v.s
      [] v.t = "int" -> ToString(v.i)
      [] v.t = "float" -> FloatRepr(v)
      [] v.t = "bool" -> (IF v.i = 1 THEN "True" ELSE "False")
      [] OTHER -> "None"


(***************************************************************************)
(* Module constants, main.py:11-29.                                        *)
(***************************************************************************)
YNAB_FETCH_RETRIES == 3
YNAB_TOKEN_KEY == "YNAB_TOKEN"
YNAB_BUDGET_ID_KEY == "YNAB_BUDGET"
YNAB_START_YEAR == "2021-01-01"
YNAB_BASE_URL == "https://api.youneedabudget.com/v1"
YNAB_TXNS_APPROVED_ONLY == TRUE
GSHEET_SPREADSHEET_NAME == "Budget 2021"
GSHEET_TXNS_SHEET_NAME == "YNAB-Transactions"
YNAB_COLUMNS == <<"date", "account_name", "payee_name", "memo", "category_name", "amount">>
\* the contents GSHEETS_COLUMNS is bound to when the module is loaded
GSHEETS_COLUMNS_initial == <<"Date", "Account", "Payee", "Memo", "Category", "Amount">>
\* the address of the list object the module-level name GSHEETS_COLUMNS is bound to
GSHEETS_COLUMNS == 1

(***************************************************************************)
(* Inputs: the transactions a response body may hold, the two files named  *)
(* on the command line, and what the API answers to each request.          *)
(***************************************************************************)
MaxTxns == 3

Txn(d, a, p, m, c, amt) ==
    [date |-> PyStr(d), account_name |-> PyStr(a), payee_name |-> PyStr(p), memo |-> m,
     category_name |-> PyStr(c), amount |-> PyInt(amt)]

Approved(t, b) == [k \in DOMAIN t \cup {"approved"} |-> IF k = "approved" THEN PyBool(b) ELSE t[k]]

Without(t, key) == [k \in DOMAIN t \ {key} |-> t[k]]

\* an approved transaction, the same one unapproved, and one without the approved
\* field and with a null memo
TxnPool ==
    { Approved(Txn("2024-01-01", "Checking", "Store", PyStr("m"), "Food", -12340), TRUE),
      Approved(Txn("2024-01-01", "Checking", "Store", PyStr("m"), "Food", -12340), FALSE),
      Txn("2024-01-03", "Savings", "Bank", PyNone, "Interest", 99) }

TxnLists == UNION { [1..n -> TxnPool] : n \in 0..MaxTxns }

\* the lists a process that uses main.py as a library formats
MaxLibTxns == 2

LibPool ==
    TxnPool \cup
    { Without(Approved(Txn("2024-01-04", "Cash", "Employer", PyStr(""), "Income", 250), TRUE),
              "category_name"),
      Approved(Txn("2024-01-05", "Checking", "Refund", PyStr("back"), "Food", 1000), TRUE),
      Txn("2024-01-06", "Cash", "Kiosk", PyStr(""), "Food", -500) }

\* a Python list of dict objects, held by their addresses in dicts, and None
ListOf(items) == [t |-> "list", items |-> items]
NoneList == [t |-> "None", items |-> << >>]

\* the lists of n addresses that hold each of the m dict objects, the objects
\* numbered as the list first meets them
AddressLists(m, n) ==
    { l \in [1..n -> 1..m] :
        /\ \A a \in 1..m : \E k \in 1..n : l[k] = a
        /\ \A k \in 1..n : \A a \in 1..(l[k] - 1) : \E k0 \in 1..(k - 1) : l[k0] = a }

\* the argument raw_txns: dict objects and a list of them, which may hold one object
\* more than once
LibListsOf(d) ==
    { [dicts |-> d, ids |-> l] : l \in UNION { AddressLists(Len(d), n) : n \in 0..MaxLibTxns } }

LibLists == UNION { LibListsOf(d) : d \in UNION { [1..m -> LibPool] : m \in 0..MaxLibTxns } }

GSHEET_FILE == "service_account.json"
YNAB_FILE == "ynab.json"

\* the value the credentials file gives a key
FileValue(k) == IF k = YNAB_TOKEN_KEY THEN "token-1" ELSE "budget-1"

\* a file system: whether the key file exists, and the credentials file: missing,
\* a directory, not JSON, or a JSON object holding the keys of the set keys
FileSystems ==
    { [gsheet |-> g, ynab |-> y, keys |-> ks] :
        g \in BOOLEAN, y \in {"missing", "directory", "invalid"}, ks \in {{}} }
    \cup
    { [gsheet |-> g, ynab |-> "object", keys |-> ks] :
        g \in BOOLEAN, ks \in SUBSET {YNAB_TOKEN_KEY, YNAB_BUDGET_ID_KEY} }

\* the paths --log_file may name: none given, a file of its own, a directory, a path
\* in a directory that does not exist, or the path of one of the two credential files
LogFiles == {"None", "run.log", ".", "no_such_dir/run.log", GSHEET_FILE, YNAB_FILE}

\* a command line. paths: --gsheet_file and --ynab_file are both given with a value,
\* one is not given, or the last of them is given without its value; help: --help
\* is absent, or stands before or after the path options; unrecognized: there is an
\* argument the parser does not know; log_file: what --log_file names
CommandLines ==
    { [paths |-> p, help |-> h, unrecognized |-> u, log_file |-> "None"] :
        p \in {"both", "missing", "no_value"}, h \in {"none", "first", "last"},
        u \in BOOLEAN }
    \cup
    { [paths |-> "both", help |-> "none", unrecognized |-> FALSE, log_file |-> l] :
        l \in LogFiles }

\* what one requests.get meets: no response at all, or a response with a status and
\* a body that is no JSON ("notjson"), JSON with no 'data' or no 'transactions' key
\* ("noshape": {"error": ..}), JSON that cannot be subscripted by a key ("notdict":
\* [], null, {"data": null}), JSON whose data.transactions is null ("null"), or JSON
\* holding a transaction list ("txns")
Outcomes ==
    { [status |-> 0, kind |-> "ConnectionError"] }
    \cup { [status |-> st, kind |-> k] :
             st \in {200, 429}, k \in {"notjson", "noshape", "notdict", "null", "txns"} }

\* what the spreadsheet service answers: the update is made, or one of the four calls
\* of post_gsheets_transactions raises
PostOutcomes == {"ok", "AuthError", "SpreadsheetNotFound", "WorksheetNotFound", "APIError"}

VARIABLES
    fs,              \* the file system main reads
    fs0,             \* the file system main was started in
    argv,            \* the command line main was started with
    server,          \* the outcomes the API holds for the requests of this run still to come
    pc,              \* where main is: start, load, fetch, format, post, done, or lib
    err,             \* the exception that ended main, or "none"
    stages,          \* the stages main has entered, in order
    auth,            \* main's AuthData object
    i,               \* get_ynab_transactions: the loop index
    received,        \* get_ynab_transactions: the outcomes met so far
    response,        \* get_ynab_transactions: the last response
    txns_list,       \* get_ynab_transactions: the list to return
    raw_txns,        \* the caller's raw transaction list (a list of dicts)
    dicts,           \* dict objects by address: the transactions the lists hold
    formatted_txns,  \* main's formatted table
    heap,            \* list objects by address; heap[GSHEETS_COLUMNS] is the module's list
    clock,           \* time.time(), in seconds
    http_log,        \* the HTTP requests sent
    logged,          \* the number of logging.error calls
    writes,          \* the worksheet.update calls made
    calls            \* the calls of format_ynab_transactions made in this process

vars == <<fs, fs0, argv, server, pc, err, stages, auth, i, received, response, txns_list,
          raw_txns, dicts, formatted_txns, heap, clock, http_log, logged, writes, calls>>

NoAuth == [made |-> FALSE, gsheet_file |-> "", ynab_file_dict |-> << >>]
NoResponse == [status |-> 0, kind |-> "none", body |-> << >>]
NoTable == [header |-> 0, rows |-> << >>]

(***************************************************************************)
(* AuthData, main.py:31-61.                                                *)
(***************************************************************************)
path_exists(f, file) == IF file = GSHEET_FILE THEN f.gsheet ELSE f.ynab # "missing"

\* a constructor that also looks for the two keys
AuthData_validating_keys(f, gsheet_file, ynab_file) ==
    IF ~path_exists(f, gsheet_file) \/ ~path_exists(f, ynab_file)
    THEN [err |-> "FileNotFoundError", obj |-> NoAuth]
    ELSE IF f.ynab = "directory" THEN [err |-> "IsADirectoryError", obj |-> NoAuth]
    ELSE IF f.ynab = "invalid" THEN [err |-> "JSONDecodeError", obj |-> NoAuth]
    ELSE IF f.keys # {YNAB_TOKEN_KEY, YNAB_BUDGET_ID_KEY} THEN [err |-> "KeyError", obj |-> NoAuth]
    ELSE [err |-> "none",
          obj |-> [made |-> TRUE, gsheet_file |-> gsheet_file,
                   ynab_file_dict |-> [k \in f.keys |-> FileValue(k)]]]

\* AuthData.__init__: the object, or the exception raised
AuthData(f, gsheet_file, ynab_file) ==
    IF ~path_exists(f, gsheet_file) THEN [err |-> "FileNotFoundError", obj |-> NoAuth]
    ELSE IF ~path_exists(f, ynab_file) THEN [err |-> "FileNotFoundError", obj |-> NoAuth]
    ELSE IF f.ynab = "directory" THEN [err |-> "IsADirectoryError", obj |-> NoAuth]
    ELSE IF f.ynab = "invalid" THEN [err |-> "JSONDecodeError", obj |-> NoAuth]
    ELSE [err |-> "none",
          obj |-> [made |-> TRUE, gsheet_file |-> gsheet_file,
                   ynab_file_dict |-> [k \in f.keys |-> FileValue(k)]]]

get_gsheet_file(a) == a.gsheet_file

\* a lookup with a default, dict.get, instead of the KeyError
get_ynab_token_default(a) ==
    IF YNAB_TOKEN_KEY \notin DOMAIN a.ynab_file_dict THEN [err |-> "none", val |-> "None"]
    ELSE [err |-> "none", val |-> a.ynab_file_dict[YNAB_TOKEN_KEY]]

get_ynab_token(a) ==
    IF YNAB_TOKEN_KEY \notin DOMAIN a.ynab_file_dict THEN [err |-> "KeyError", val |-> ""]
    ELSE [err |-> "none", val |-> a.ynab_file_dict[YNAB_TOKEN_KEY]]

get_ynab_budget(a) ==
    IF YNAB_BUDGET_ID_KEY \notin DOMAIN a.ynab_file_dict THEN [err |-> "KeyError", val |-> ""]
    ELSE [err |-> "none", val |-> a.ynab_file_dict[YNAB_BUDGET_ID_KEY]]

(***************************************************************************)
(* format_ynab_transactions, main.py:119-136.                              *)
(***************************************************************************)
\* time.ctime() in UTC, for the first minute of the epoch
ctime(t) == "Thu Jan  1 00:00:" \o TwoDigits(t) \o " 1970"

\* Python's truth value of a JSON value
Truthy(v) ==
    CASE v.t = "bool" -> v.i = 1
      [] v.t = "int" -> v.i # 0
      [] v.t = "str" -> v.s # ""
      [] v.t = "float" -> v.mant # << >>
      [] OTHER -> FALSE

\* a filter that keeps only what is marked approved: transaction.get('approved')
Skipped_unless_approved(transaction) ==
    /\ YNAB_TXNS_APPROVED_ONLY
    /\ ~("approved" \in DOMAIN transaction /\ Truthy(transaction["approved"]))

\* main.py:125: the transaction is left out
Skipped(transaction) ==
    /\ YNAB_TXNS_APPROVED_ONLY
    /\ "approved" \in DOMAIN transaction
    /\ ~Truthy(transaction["approved"])

\* main.py:133 for every column of a transaction that has them all
RowOf(after) ==
    [err |-> "none", txn |-> after,
     row |-> [c \in 1..Len(YNAB_COLUMNS) |-> str(after[YNAB_COLUMNS[c]])]]

\* a loop that converts into the row only and leaves the transaction as it was
FormatRow_on_copy(transaction) ==
    IF \E c \in 1..Len(YNAB_COLUMNS) : YNAB_COLUMNS[c] \notin DOMAIN transaction
    THEN [err |-> "KeyError", txn |-> transaction, row |-> << >>]
    ELSE [err |-> "none", txn |-> transaction,
          row |-> RowOf([transaction EXCEPT
                            !["amount"] = convert_milliunits_to_dollar_amount(@)]).row]

\* main.py:128-134 for one transaction: the row, the transaction as the loop leaves
\* it, and the KeyError of a column the transaction lacks
FormatRow(transaction) ==
    IF \E c \in 1..Len(YNAB_COLUMNS) : YNAB_COLUMNS[c] \notin DOMAIN transaction
    THEN [err |-> "KeyError", txn |-> transaction, row |-> << >>]
    ELSE RowOf([transaction EXCEPT !["amount"] = convert_milliunits_to_dollar_amount(@)])

RECURSIVE FormatLoop(_, _, _, _)
\* main.py:131 and 134: the dict object has its amount replaced, the row is appended;
\* or the exception leaves the loop
FormatNext(d, ids, j, rows, r) ==
    IF r.err # "none" THEN [err |-> r.err, dicts |-> d, rows |-> rows, done |-> j - 1]
    ELSE FormatLoop([d EXCEPT ![ids[j]] = r.txn], ids, j + 1, Append(rows, r.row))

\* main.py:124-134 from position j of the list on: the dict objects as the loop
\* leaves them, the rows appended, the exception that ended the loop, and the number
\* of positions the loop went through
FormatLoop(d, ids, j, rows) ==
    IF j > Len(ids) THEN [err |-> "none", dicts |-> d, rows |-> rows, done |-> Len(ids)]
    ELSE IF Skipped(d[ids[j]]) THEN FormatLoop(d, ids, j + 1, rows)
    ELSE FormatNext(d, ids, j, rows, FormatRow(d[ids[j]]))

\* main.py:124: None cannot be iterated
FormatAll(d, raw) ==
    IF raw.t = "None" THEN [err |-> "TypeError", dicts |-> d, rows |-> << >>, done |-> 0]
    ELSE FormatLoop(d, raw.items, 1, << >>)

\* a header that is a fresh copy of the module's list: list(GSHEETS_COLUMNS)
HeaderList_copy(h) == [heap |-> Append(h, h[GSHEETS_COLUMNS]), header |-> Len(h) + 1]

\* main.py:120: the list the header row is, in the heap h
HeaderList(h) == [heap |-> h, header |-> GSHEETS_COLUMNS]

\* main.py:121
AppendTime(hl, now) ==
    [heap |-> [hl.heap EXCEPT ![hl.header] = Append(@, "Time Updated: " \o ctime(now))],
     header |-> hl.header]

\* main.py:123 and 136: the heap and the dict objects after the call, the table
\* returned
FormatResult(hl, loop) ==
    [err |-> loop.err, heap |-> hl.heap, dicts |-> loop.dicts, done |-> loop.done,
     ret |-> IF loop.err = "none" THEN [header |-> hl.header, rows |-> loop.rows]
             ELSE NoTable]

format_ynab_transactions(h, d, raw, now) ==
    FormatResult(AppendTime(HeaderList(h), now), FormatAll(d, raw))

\* the rows of a table as they stand now: its header list, then its data rows
TableValue(tbl) == <<heap[tbl.header]>> \o tbl.rows

\* the dicts a list holds, position by position
ListValue(d, raw) == [k \in 1..Len(raw.items) |-> d[raw.items[k]]]

\* one call, as this process remembers it: the list passed, by address (ids) and by
\* value (pre), the time, the exception, the table returned, how long its header was
\* at the return, and the number of positions the loop went through
CallRecord(d, raw, now, res) ==
    [ids |-> raw.items, pre |-> ListValue(d, raw), now |-> now, err |-> res.err,
     ret |-> res.ret, done |-> res.done,
     header_len |-> IF res.err = "none" THEN Len(res.heap[res.ret.header]) ELSE 0]

(***************************************************************************)
(* post_gsheets_transactions, main.py:139-145: the update calls made and   *)
(* the exception raised, for what the spreadsheet service answers.         *)
(***************************************************************************)
\* a writer that updates the worksheet row by row
post_gsheets_transactions_by_row(a, transaction_sheet, outcome) ==
    IF outcome = "ok"
    THEN [err |-> "none",
          updates |-> [r \in 1..Len(transaction_sheet) |->
                         [key |-> get_gsheet_file(a), spreadsheet |-> GSHEET_SPREADSHEET_NAME,
                          worksheet |-> GSHEET_TXNS_SHEET_NAME, range |-> "A:Z",
                          values |-> <<transaction_sheet[r]>>]]]
    ELSE [err |-> outcome, updates |-> << >>]

post_gsheets_transactions(a, transaction_sheet, outcome) ==
    IF outcome = "ok"
    THEN [err |-> "none",
          updates |-> << [key |-> get_gsheet_file(a), spreadsheet |-> GSHEET_SPREADSHEET_NAME,
                          worksheet |-> GSHEET_TXNS_SHEET_NAME, range |-> "A:Z",
                          values |-> transaction_sheet] >>]
    ELSE [err |-> outcome, updates |-> << >>]

(***************************************************************************)
(* main, main.py:64-97, and get_ynab_transactions, main.py:100-116.        *)
(***************************************************************************)
Init ==
    /\ fs \in FileSystems
    /\ fs0 = fs
    /\ argv \in CommandLines
    /\ server = << >>
    /\ pc = "start"
    /\ err = "none"
    /\ stages = << >>
    /\ auth = NoAuth
    /\ i = 0
    /\ received = << >>
    /\ response = NoResponse
    /\ txns_list = ListOf(<< >>)
    /\ raw_txns = ListOf(<< >>)
    /\ dicts = << >>
    /\ formatted_txns = NoTable
    /\ heap = <<GSHEETS_COLUMNS_initial>>
    /\ clock = 0
    /\ http_log = << >>
    /\ logged = 0
    /\ writes = << >>
    /\ calls = << >>

Raise(e) == pc' = "done" /\ err' = e

\* parser.parse_args(), main.py:84: the exception raised for a command line. The
\* arguments are taken in order: --help exits where it stands, an option without its
\* value is an error where it stands; a required option that is missing or an
\* argument that is not recognized is an error at the end
parse_args(args) ==
    IF args.help = "first" THEN "SystemExit(0)"
    ELSE IF args.paths = "no_value" THEN "SystemExit(2)"
    ELSE IF args.help = "last" THEN "SystemExit(0)"
    ELSE IF args.paths = "missing" \/ args.unrecognized THEN "SystemExit(2)"
    ELSE "none"

\* logging.FileHandler(args.log_file), main.py:88, opens the file for appending: the
\* exception raised, and the file system left, where a file that was missing is
\* there and empty
FileHandler(f, log_file) ==
    CASE log_file = "." -> [err |-> "IsADirectoryError", fs |-> f]
      [] log_file = "no_such_dir/run.log" -> [err |-> "FileNotFoundError", fs |-> f]
      [] log_file = GSHEET_FILE -> [err |-> "none", fs |-> [f EXCEPT !.gsheet = TRUE]]
      [] log_file = YNAB_FILE ->
            IF f.ynab = "directory" THEN [err |-> "IsADirectoryError", fs |-> f]
            ELSE IF f.ynab = "missing" THEN [err |-> "none", fs |-> [f EXCEPT !.ynab = "invalid"]]
            ELSE [err |-> "none", fs |-> f]
      [] OTHER -> [err |-> "none", fs |-> f]

\* what main.py:87-88 leaves behind: no handler is made for an absent --log_file
LogSetup(h) ==
    /\ fs' = h.fs
    /\ IF h.err # "none" THEN Raise(h.err) ELSE pc' = "load" /\ err' = err

\* main.py:65-88: the command line is parsed and logging set up
Start ==
    /\ pc = "start"
    /\ IF parse_args(argv) # "none" THEN Raise(parse_args(argv)) /\ fs' = fs
       ELSE IF argv.log_file \in {"None", ""} THEN pc' = "load" /\ err' = err /\ fs' = fs
       ELSE LogSetup(FileHandler(fs, argv.log_file))
    /\ UNCHANGED <<fs0, argv, server, stages, auth, i, received, response, txns_list,
                   raw_txns, dicts, formatted_txns, heap, clock, http_log, logged, writes, calls>>

\* main.py:90; what the API will answer to the requests of this run is settled when
\* main turns to the fetcher
Load ==
    /\ pc = "load"
    /\ LET a == AuthData(fs, GSHEET_FILE, YNAB_FILE)
       IN  /\ stages' = Append(stages, "Loader")
           /\ auth' = a.obj
           /\ IF a.err # "none"
              THEN Raise(a.err) /\ server' = server
              ELSE /\ pc' = "fetch" /\ err' = err
                   /\ server' \in [1..YNAB_FETCH_RETRIES -> Outcomes]
    /\ UNCHANGED <<fs, fs0, argv, i, received, response, txns_list, raw_txns, dicts,
                   formatted_txns, heap, clock, http_log, logged, writes, calls>>

\* what an iteration of main.py:102-114 does with the outcome of its request: the
\* exception raised, whether logging.error was called, and the list assigned with
\* the dict objects response.json() made for it
HandleResponse(out, body) ==
    IF out.kind = "ConnectionError"
    THEN [err |-> "ConnectionError", log |-> 0, list |-> NoneList, dicts |-> << >>]
    ELSE IF out.status # 200 /\ out.kind = "notjson"
    THEN [err |-> "JSONDecodeError", log |-> 0, list |-> NoneList, dicts |-> << >>]
    ELSE [err |-> CASE out.kind = "notjson" -> "JSONDecodeError"
                    [] out.kind = "noshape" -> "KeyError"
                    [] out.kind = "notdict" -> "TypeError"
                    [] OTHER -> "none",
          log |-> IF out.status # 200 THEN 1 ELSE 0,
          list |-> IF out.kind = "txns" THEN ListOf([k \in 1..Len(body) |-> k]) ELSE NoneList,
          dicts |-> body]

\* logging.error, main.py:111, with the handlers main set up: the record is appended
\* to the log file, and a credentials file that is the log file is JSON no more
LogError(f, log_file) ==
    IF log_file = YNAB_FILE THEN [f EXCEPT !.ynab = "invalid", !.keys = {}] ELSE f

\* what the iteration leaves behind
Handled(out, body, res) ==
    /\ logged' = logged + res.log
    /\ fs' = IF res.log = 1 THEN LogError(fs, argv.log_file) ELSE fs
    /\ IF res.err # "none"
       THEN /\ Raise(res.err)
            /\ response' = IF out.kind = "ConnectionError" THEN response
                            ELSE [status |-> out.status, kind |-> out.kind, body |-> << >>]
            /\ UNCHANGED <<i, txns_list, dicts>>
       ELSE /\ response' = [status |-> out.status, kind |-> out.kind, body |-> body]
            /\ txns_list' = res.list
            /\ dicts' = res.dicts
            /\ i' = i + 1
            /\ UNCHANGED <<pc, err>>

\* one iteration of the loop, main.py:102-114
FetchAttempt ==
    /\ pc = "fetch"
    /\ i < YNAB_FETCH_RETRIES
    /\ stages' = IF i = 0 THEN Append(stages, "Fetcher") ELSE stages
    /\ LET budget == get_ynab_budget(auth)
           token  == get_ynab_token(auth)
       IN  IF budget.err # "none" \/ token.err # "none"
           THEN /\ Raise(IF budget.err # "none" THEN budget.err ELSE token.err)
                /\ UNCHANGED <<fs, server, i, received, response, txns_list, dicts, http_log,
                               logged>>
           ELSE \E body \in TxnLists :
                /\ Head(server).kind # "txns" => body = << >>
                /\ http_log' = Append(http_log,
                      [url |-> YNAB_BASE_URL \o "/budgets/" \o budget.val \o "/transactions",
                       authorization |-> "Bearer " \o token.val,
                       since_date |-> YNAB_START_YEAR])
                /\ server' = Tail(server)
                /\ received' = Append(received, Head(server))
                /\ Handled(Head(server), body, HandleResponse(Head(server), body))
    /\ UNCHANGED <<fs0, argv, auth, raw_txns, formatted_txns, heap, clock, writes, calls>>

\* main.py:116 and main.py:93: the loop is over, the locals are gone
FetchReturn ==
    /\ pc = "fetch"
    /\ i = YNAB_FETCH_RETRIES
    /\ raw_txns' = txns_list
    /\ pc' = "format"
    /\ i' = 0
    /\ received' = << >>
    /\ response' = NoResponse
    /\ txns_list' = ListOf(<< >>)
    /\ UNCHANGED <<fs, fs0, argv, server, err, stages, auth, dicts, formatted_txns, heap,
                   clock, http_log, logged, writes, calls>>

\* what a call of format_ynab_transactions at time now leaves behind
Formatted(now, res) ==
    /\ clock' = now
    /\ heap' = res.heap
    /\ dicts' = res.dicts
    /\ calls' = Append(calls, CallRecord(dicts, raw_txns, now, res))
    /\ formatted_txns' = res.ret
    /\ err' = res.err

\* main.py:94
Format ==
    /\ pc = "format"
    /\ \E now \in {clock, clock + 1} :
         /\ Formatted(now, format_ynab_transactions(heap, dicts, raw_txns, now))
         /\ pc' = IF err' # "none" THEN "done" ELSE "post"
    /\ stages' = Append(stages, "Formatter")
    /\ UNCHANGED <<fs, fs0, argv, server, auth, i, received, response, txns_list, raw_txns,
                   http_log, logged, writes>>

Posted(res) ==
    /\ writes' = writes \o res.updates
    /\ pc' = "done"
    /\ err' = res.err

\* main.py:97
Post ==
    /\ pc = "post"
    /\ \E outcome \in PostOutcomes :
         Posted(post_gsheets_transactions(auth, TableValue(formatted_txns), outcome))
    /\ stages' = Append(stages, "Writer")
    /\ UNCHANGED <<fs, fs0, argv, server, auth, i, received, response, txns_list, raw_txns,
                   dicts, formatted_txns, heap, clock, http_log, logged, calls>>

Next == Start \/ Load \/ FetchAttempt \/ FetchReturn \/ Format \/ Post

Spec == Init /\ [][Next]_vars

(***************************************************************************)
(* A process that has imported main.py and calls format_ynab_transactions  *)
(* on one parsed transaction list, again and again.                        *)
(***************************************************************************)
MaxCalls == 3

InitLib ==
    /\ fs = [gsheet |-> TRUE, ynab |-> "object", keys |-> {YNAB_TOKEN_KEY, YNAB_BUDGET_ID_KEY}]
    /\ fs0 = fs
    /\ argv = [paths |-> "both", help |-> "none", unrecognized |-> FALSE, log_file |-> "None"]
    /\ server = << >>
    /\ pc = "lib"
    /\ err = "none"
    /\ stages = << >>
    /\ auth = AuthData(fs, GSHEET_FILE, YNAB_FILE).obj
    /\ i = 0
    /\ received = << >>
    /\ response = NoResponse
    /\ txns_list = ListOf(<< >>)
    /\ \E l \in LibLists : raw_txns = ListOf(l.ids) /\ dicts = l.dicts
    /\ formatted_txns = NoTable
    /\ heap = <<GSHEETS_COLUMNS_initial>>
    /\ clock = 0
    /\ http_log = << >>
    /\ logged = 0
    /\ writes = << >>
    /\ calls = << >>

\* a call format_ynab_transactions(auth, raw_txns), one second after the call before
\* it; an exception is caught by the caller
CallFormat ==
    /\ pc = "lib"
    /\ Len(calls) < MaxCalls
    /\ Formatted(clock + 1, format_ynab_transactions(heap, dicts, raw_txns, clock + 1))
    /\ UNCHANGED <<fs, fs0, argv, server, pc, stages, auth, i, received, response, txns_list,
                   raw_txns, http_log, logged, writes>>

NextLib == CallFormat

SpecLib == InitLib /\ [][NextLib]_vars

(***************************************************************************)
(* What the claims speak of.                                               *)
(***************************************************************************)
BothKeys == {YNAB_TOKEN_KEY, YNAB_BUDGET_ID_KEY}

\* the credentials file is a JSON object without one of the two keys
LacksKey(f) == f.ynab = "object" /\ f.keys # BothKeys

\* a credential file is missing or the credentials lack a key
ConfigError(f) == ~f.gsheet \/ f.ynab = "missing" \/ LacksKey(f)

StageOrder == <<"Loader", "Fetcher", "Formatter", "Writer">>

\* all the outcomes of this run's requests: those met and those still to come
Script == received \o server

\* an outcome that is a response whose status is not 200
Failed(out) == out.kind # "ConnectionError" /\ out.status # 200

\* the transaction has no approved field or has it true
KeptTxn(t) == "approved" \notin DOMAIN t \/ t["approved"] = PyBool(TRUE)

\* the transaction has the approved field, and it is false
Unapproved(t) == "approved" \in DOMAIN t /\ t["approved"] = PyBool(FALSE)

\* the decimal v / 10^scale of an integer v, written as Python writes a float
DecimalRepr(v, scale) ==
    IF v = 0 THEN "0.0"
    ELSE (IF v < 0 THEN "-" ELSE "") \o FormatDecimal(BigOfNat(Abs(v)), scale)

\* the call returned a table
Returned(c) == c.err = "none"

\* the data row a returned call gave the k-th kept transaction of its list
KeptOf(c) == SelectSeq(c.pre, KeptTxn)

ExampleTxn ==
    Approved(Txn("2024-01-01", "Checking", "Store", PyStr("m"), "Food", -12340), TRUE)

\* the list holds no dict object twice
Distinct(ids) == \A j, k \in 1..Len(ids) : ids[j] = ids[k] => j = k

\* the number of kept positions among the first upto of call c that hold the dict
\* object of position j
Conversions(c, j, upto) ==
    Cardinality({k \in 1..upto : c.ids[k] = c.ids[j] /\ KeptTxn(c.pre[k])})

\* the row a returned call gave position j: the number of kept positions up to j
RowIndex(c, j) == Cardinality({k \in 1..j : KeptTxn(c.pre[k])})

RECURSIVE ConvertedTimes(_, _)
\* the transaction with its amount converted n times
ConvertedTimes(t, n) ==
    IF n = 0 THEN t
    ELSE ConvertedTimes([t EXCEPT !["amount"] = TrueDivide1000(@)], n - 1)

(***************************************************************************)
(* C1 as stated: for a credentials file that lacks YNAB_TOKEN or           *)
(* YNAB_BUDGET, constructing AuthData fails with a missing-key error: once *)
(* main is past the construction there is no AuthData object and the run   *)
(* has ended with KeyError.                                                *)
(***************************************************************************)
C1_ConstructionFails ==
    (fs.gsheet /\ LacksKey(fs) /\ stages # << >>) =>
        (~auth.made /\ pc = "done" /\ err = "KeyError")

(***************************************************************************)
(* C1 as amended: for such a file (both files existing) the construction   *)
(* succeeds and keeps the object as parsed; the missing-key error is       *)
(* raised later, by the accessor of the missing key, which main first      *)
(* calls in the first fetch attempt, before any request is sent.           *)
(***************************************************************************)
C1_KeyErrorFromAccessor ==
    (fs.gsheet /\ LacksKey(fs) /\ stages # << >>) =>
        /\ auth.made /\ DOMAIN auth.ynab_file_dict = fs.keys
        /\ pc = "fetch" => (err = "none" /\ stages = <<"Loader">>)
        /\ pc = "done" => /\ err = "KeyError"
                          /\ stages = <<"Loader", "Fetcher">>
                          /\ http_log = << >>
                          /\ \/ get_ynab_budget(auth).err = "KeyError"
                             \/ get_ynab_token(auth).err = "KeyError"

C1_Witness ==
    /\ fs.gsheet /\ LacksKey(fs)
    /\ auth.made
    /\ pc = "done" /\ err = "KeyError"

(***************************************************************************)
(* C2 as stated: when only the third of the three responses has status 200 *)
(* and its body holds a transaction list, get_ynab_transactions (called    *)
(* with both keys present) ends by returning exactly that list.            *)
(***************************************************************************)
C2_ReturnsThirdList ==
    ( /\ auth.made /\ DOMAIN auth.ynab_file_dict = BothKeys
      /\ Len(Script) = YNAB_FETCH_RETRIES
      /\ Failed(Script[1]) /\ Failed(Script[2])
      /\ Script[3].status = 200 /\ Script[3].kind = "txns"
      /\ pc = "done" \/ (pc = "fetch" /\ i = YNAB_FETCH_RETRIES) )
    => ( /\ pc = "fetch" /\ err = "none"
         /\ Len(received) = YNAB_FETCH_RETRIES
         /\ txns_list.t = "list"
         /\ ListValue(dicts, txns_list) = response.body )

(***************************************************************************)
(* C3 as stated: an attempt whose status is not 200 does not abort the     *)
(* fetcher, the loop goes on to the remaining attempts; so when handling a *)
(* response has raised, that response is the last attempt's.               *)
(***************************************************************************)
C3_OnlyLastAttemptRaises ==
    ( /\ pc = "done" /\ err # "none"
      /\ stages = <<"Loader", "Fetcher">>
      /\ received # << >>
      /\ received[Len(received)].kind # "ConnectionError" )
    => Len(received) = YNAB_FETCH_RETRIES

(***************************************************************************)
(* C4 as stated: in a run of main, started with a command line the parser  *)
(* accepts, where a credential file is missing or the credentials lack a   *)
(* key, no HTTP request is sent, nothing is written to the spreadsheet, no *)
(* attempt is repeated, and the run ends with a not-found or a missing-key *)
(* error.                                                                  *)
(***************************************************************************)
C4_EndsWithConfigError ==
    (ConfigError(fs0) /\ parse_args(argv) = "none") =>
        /\ http_log = << >> /\ writes = << >> /\ logged = 0 /\ calls = << >>
        /\ i = 0 /\ received = << >>
        /\ pc \in {"start", "load", "fetch", "done"}
        /\ pc = "done" => err \in {"FileNotFoundError", "KeyError"}

(***************************************************************************)
(* C4 as amended: in a run where, the command line parsed and the log file *)
(* opened, a credential file is missing or the credentials lack a key, no  *)
(* HTTP request is sent, nothing is written to the spreadsheet, no attempt *)
(* is repeated, and the run ends with FileNotFoundError from the loader    *)
(* for a missing file, or with KeyError from the first fetch attempt for a *)
(* missing key. A run that does not get so far ends before the loader,     *)
(* with the SystemExit of the argument parser or the error of opening the  *)
(* log file, whatever the credentials are; and a credential file that was  *)
(* missing when main started is there for the loader only when --log_file  *)
(* names it, opening the log having made it.                               *)
(***************************************************************************)
C4_ConfigErrorsFatal ==
    /\ ConfigError(fs) =>
          /\ http_log = << >> /\ writes = << >> /\ logged = 0 /\ calls = << >>
          /\ i = 0 /\ received = << >>
          /\ pc \in {"start", "load", "fetch", "done"}
          /\ pc = "fetch" => stages = <<"Loader">>
          /\ (pc = "done" /\ stages # << >>) =>
               /\ err \in {"FileNotFoundError", "KeyError"}
               /\ err = "FileNotFoundError" <=> (~fs.gsheet \/ fs.ynab = "missing")
               /\ err = "FileNotFoundError" => stages = <<"Loader">>
               /\ err = "KeyError" => stages = <<"Loader", "Fetcher">>
    /\ (pc = "done" /\ stages = << >>) =>
          /\ ~auth.made /\ http_log = << >> /\ writes = << >>
          /\ err \in {"SystemExit(0)", "SystemExit(2)", "IsADirectoryError",
                      "FileNotFoundError"}
          /\ err = IF parse_args(argv) # "none" THEN parse_args(argv)
                   ELSE FileHandler(fs0, argv.log_file).err
    /\ stages # << >> =>
          /\ parse_args(argv) = "none"
          /\ argv.log_file # "None" => FileHandler(fs0, argv.log_file).err = "none"
    /\ (ConfigError(fs0) /\ ~ConfigError(fs)) =>
          \/ argv.log_file = GSHEET_FILE /\ ~fs0.gsheet /\ fs.gsheet
          \/ argv.log_file = YNAB_FILE /\ fs0.ynab = "missing" /\ fs.ynab = "invalid"

\* the log file opened, the budget id is there and the token is not: the run ended
\* between the two lookups and the request
C4_Witness ==
    /\ fs.gsheet /\ fs.ynab = "object" /\ fs.keys = {YNAB_BUDGET_ID_KEY}
    /\ argv.log_file = "run.log"
    /\ pc = "done" /\ err = "KeyError"
    /\ http_log = << >>

(***************************************************************************)
(* C5 as stated: in every table format_ynab_transactions returns, the      *)
(* header row has, when the table is returned, exactly one element more    *)
(* than every data row.                                                    *)
(***************************************************************************)
C5_HeaderOneLonger ==
    \A n \in 1..Len(calls) :
        Returned(calls[n]) =>
            \A r \in 1..Len(calls[n].ret.rows) :
                calls[n].header_len = Len(calls[n].ret.rows[r]) + 1

(***************************************************************************)
(* C6: with approved-only filtering on, the table main formats is the      *)
(* header row followed by one data row, in input order, for each raw       *)
(* transaction that has no approved field or has it true; a transaction is *)
(* left out exactly when the field is there and false; and the table       *)
(* posted has one row more than there are such transactions.               *)
(***************************************************************************)
C6_ApprovedOnly ==
    \A n \in 1..Len(calls) :
        Returned(calls[n]) =>
            LET kept == KeptOf(calls[n])
                rows == calls[n].ret.rows
            IN  /\ YNAB_TXNS_APPROVED_ONLY
                /\ Len(rows) = Len(kept)
                /\ \A k \in 1..Len(kept) : \A c \in 1..5 :
                       rows[k][c] = str(kept[k][YNAB_COLUMNS[c]])
                /\ \A j \in 1..Len(calls[n].pre) :
                       ~KeptTxn(calls[n].pre[j]) <=> Unapproved(calls[n].pre[j])
                /\ Len(TableValue(calls[n].ret)) = 1 + Len(kept)
                /\ \A w \in 1..Len(writes) : Len(writes[w].values) = 1 + Len(kept)

\* two approved transactions and an unapproved one were fetched, three rows were posted
C6_Witness ==
    /\ pc = "done" /\ Len(writes) = 1 /\ Len(calls) = 1
    /\ Len(calls[1].pre) = 3
    /\ Cardinality({j \in 1..3 : "approved" \in DOMAIN calls[1].pre[j]
                                  /\ calls[1].pre[j]["approved"] = PyBool(TRUE)}) = 2
    /\ Cardinality({j \in 1..3 : Unapproved(calls[1].pre[j])}) = 1
    /\ Len(writes[1].values) = 3
    /\ writes[1].range = "A:Z" /\ writes[1].worksheet = GSHEET_TXNS_SHEET_NAME

(***************************************************************************)
(* C7: main enters Loader, Fetcher, Formatter, Writer in that order, each  *)
(* once at most; the spreadsheet is written at most once, in one update of *)
(* range "A:Z" with the whole table, and only after all the fetch attempts *)
(* and the formatting ended without raising; a run that an earlier stage   *)
(* ended has written nothing.                                              *)
(***************************************************************************)
C7_SinglePass ==
    /\ stages = SubSeq(StageOrder, 1, Len(stages))
    /\ Len(writes) <= 1
    /\ err # "none" => pc = "done"
    /\ writes # << >> =>
         /\ pc = "done" /\ err = "none" /\ stages = StageOrder
         /\ writes[1].range = "A:Z"
         /\ writes[1].values = TableValue(formatted_txns)
         /\ Len(http_log) = YNAB_FETCH_RETRIES
         /\ Len(calls) = 1 /\ Returned(calls[1])
    /\ (pc = "done" /\ stages # StageOrder) => (err # "none" /\ writes = << >>)

C7_Witness ==
    /\ pc = "done" /\ err = "none"
    /\ Len(writes) = 1 /\ Len(writes[1].values) > 1
    /\ stages = StageOrder

(***************************************************************************)
(* C8 as stated: for every kept raw transaction of the list passed, whose  *)
(* amount is an integer of milliunits, the data row is six string cells,   *)
(* date, account_name, payee_name, memo, category_name, amount in that     *)
(* order, the amount cell being the amount divided by 1000; amount -12340  *)
(* gives ["2024-01-01","Checking","Store","m","Food","-12.34"], 1000 gives *)
(* 1.0 and -500 gives -0.5.                                                *)
(***************************************************************************)
C8_SixCells ==
    \A n \in 1..Len(calls) :
        Returned(calls[n]) =>
            LET kept == KeptOf(calls[n])
                rows == calls[n].ret.rows
            IN  \A k \in 1..Len(kept) :
                    kept[k]["amount"].t = "int" =>
                        /\ Len(rows[k]) = 6
                        /\ rows[k] = <<str(kept[k]["date"]), str(kept[k]["account_name"]),
                                       str(kept[k]["payee_name"]), str(kept[k]["memo"]),
                                       str(kept[k]["category_name"]),
                                       DecimalRepr(kept[k]["amount"].i, 3)>>
                        /\ kept[k] = ExampleTxn =>
                             rows[k] = <<"2024-01-01", "Checking", "Store", "m", "Food", "-12.34">>
                        /\ kept[k]["amount"].i = 1000 => rows[k][6] = "1.0"
                        /\ kept[k]["amount"].i = -500 => rows[k][6] = "-0.5"

(***************************************************************************)
(* C9: after k calls of format_ynab_transactions in one process the list   *)
(* GSHEETS_COLUMNS has 6 + k elements; the header row the k-th call        *)
(* returned had 6 + k elements; and the header row of every table returned *)
(* so far is that same list, so it has 6 + k elements now.                 *)
(***************************************************************************)
C9_SharedHeader ==
    /\ Len(heap[GSHEETS_COLUMNS]) = Len(GSHEETS_COLUMNS_initial) + Len(calls)
    /\ \A n \in 1..Len(calls) :
           Returned(calls[n]) =>
               /\ calls[n].header_len = Len(GSHEETS_COLUMNS_initial) + n
               /\ calls[n].ret.header = GSHEETS_COLUMNS
               /\ Len(TableValue(calls[n].ret)[1]) = Len(GSHEETS_COLUMNS_initial) + Len(calls)

\* the table of the first call had a header of 7 cells and has one of 9 now
C9_Witness ==
    /\ Len(calls) = 3
    /\ Returned(calls[1]) /\ calls[1].header_len = 7
    /\ Len(TableValue(calls[1].ret)[1]) = 9
    /\ Len(heap[GSHEETS_COLUMNS]) = 9

(***************************************************************************)
(* C10 as stated: after a call the amount of every kept raw transaction    *)
(* has been replaced in place by its converted value, amount / 1000, and   *)
(* the skipped transactions and all other fields are as they were; and     *)
(* when the same raw list is formatted twice, the amount cells of the      *)
(* second table are the original milliunits divided by 1000000.            *)
(***************************************************************************)
C10_ConvertedOnce ==
    calls # << >> =>
        LET c == calls[Len(calls)]
        IN  /\ \A j \in 1..Len(c.pre) :
                   dicts[c.ids[j]] =
                       IF KeptTxn(c.pre[j]) /\ "amount" \in DOMAIN c.pre[j]
                       THEN [c.pre[j] EXCEPT !["amount"] = TrueDivide1000(@)]
                       ELSE c.pre[j]
            /\ (Len(calls) = 2 /\ Returned(calls[1]) /\ Returned(calls[2])) =>
                   LET kept == KeptOf(calls[1])
                   IN  \A k \in 1..Len(kept) :
                           kept[k]["amount"].t = "int" =>
                               calls[2].ret.rows[k][6] = DecimalRepr(kept[k]["amount"].i, 6)

(***************************************************************************)
(* C10 as amended: each time the loop formats a kept transaction it        *)
(* replaces the amount of that dict object, in place, by its converted     *)
(* value, and leaves the skipped transactions and all other fields as they *)
(* were. So after a call, returned or ended by an exception, the amount of *)
(* a dict object has been converted once for every kept position holding   *)
(* it that the loop went through, and the amount cell of a row is the str  *)
(* of the amount as converted up to that row. When a list of distinct      *)
(* dicts is formatted twice, the amount cells of the second table are the  *)
(* str of the amount converted twice, float(float(v/1000)/1000), which is  *)
(* v / 1000000 only up to the rounding of the second division and, for v   *)
(* other than 0, not the v / 1000 of the first table.                      *)
(***************************************************************************)
C10_InputConverted ==
    /\ calls # << >> =>
          LET c == calls[Len(calls)]
          IN  \A j \in 1..Len(c.pre) :
                  dicts[c.ids[j]] = ConvertedTimes(c.pre[j], Conversions(c, j, c.done))
    /\ \A n \in 1..Len(calls) :
          Returned(calls[n]) =>
              /\ calls[n].done = Len(calls[n].pre)
              /\ \A j \in 1..Len(calls[n].pre) :
                     KeptTxn(calls[n].pre[j]) =>
                         calls[n].ret.rows[RowIndex(calls[n], j)][6] =
                             str(ConvertedTimes(calls[n].pre[j],
                                                Conversions(calls[n], j, j))["amount"])
    /\ (Len(calls) >= 2 /\ Returned(calls[1]) /\ Returned(calls[2])
                        /\ Distinct(calls[1].ids)) =>
          LET kept == KeptOf(calls[1])
          IN  \A k \in 1..Len(kept) :
                  (kept[k]["amount"].t = "int" /\ kept[k]["amount"].i # 0) =>
                      /\ calls[2].ret.rows[k][6] =
                             str(TrueDivide1000(TrueDivide1000(kept[k]["amount"])))
                      /\ calls[2].ret.rows[k][6] # DecimalRepr(kept[k]["amount"].i, 3)
                      /\ calls[2].ret.rows[k][6] # calls[1].ret.rows[k][6]

\* a list that holds one dict twice was formatted: the dict was converted twice by
\* the one call; and a list was formatted twice: 99 milliunits gave 0.099 and then,
\* by the rounding of the second division, not 9.9e-05
C10_Witness ==
    /\ Len(calls) = 2 /\ Returned(calls[1]) /\ Returned(calls[2])
    /\ calls[1].ids = <<1, 1>>
    /\ calls[1].pre[1]["amount"] = PyInt(99)
    /\ calls[1].ret.rows = << <<"2024-01-03", "Savings", "Bank", "None", "Interest", "0.099">>,
                              <<"2024-01-03", "Savings", "Bank", "None", "Interest",
                                "9.900000000000001e-05">> >>
    /\ calls[2].pre[1]["amount"] = TrueDivide1000(TrueDivide1000(PyInt(99)))
    /\ dicts[1] # calls[1].pre[1]

====
